---- MODULE Spec2Model ----
(***************************************************************************)
(* Credit-scoring application: the Streamlit form (app/streamlit_app.py)   *)
(* and the training-artifact regeneration (src/recreate_scaling.py).       *)
(*                                                                         *)
(* Numbers.  Python floats are modelled by exact values <<n, d, r>>:       *)
(*   r = 1, d > 0 : the rational n/d in lowest terms;                      *)
(*   r = 2, d > 0 : the square root of the rational n/d (n/d not a square);*)
(*   r = 1, d = 0 : IEEE non-finite values, n = 1 inf, n = -1 -inf,        *)
(*                  n = 0 NaN (what pandas yields on a zero denominator);  *)
(*   r = 0        : a raised ZeroDivisionError (Python scalar division).   *)
(* A scaled square root <<n, d, 2, c, s>> keeps its centre and scale.      *)
(* Floating-point rounding is not modelled.                                *)
(*                                                                         *)
(* Strings.  A widget label is a sequence of tokens (Thai words are        *)
(* transliterated, the English gloss in parentheses is one token); the     *)
(* Python test `needle in label` is the contiguous-subsequence test.       *)
(***************************************************************************)
EXTENDS Integers, Sequences, FiniteSets, TLC

(***************************************************************************)
(* Bounds of the model                                                     *)
(***************************************************************************)
\* widgets that differ from the form's default values in one session
MaxEdits == 1
\* length of the short feature schemas drawn over ProbeNames
MaxSchemaLen == 2
\* the classifier's probability is a multiple of 1/ProbDenom (or a threshold)
ProbDenom == 100
\* rows of the tables create_features is given
MaxRows == 2

(***************************************************************************)
(* Exact arithmetic                                                        *)
(***************************************************************************)
Abs(x) == IF x < 0 THEN -x ELSE x

RECURSIVE GCD(_, _)
GCD(a, b) == IF b = 0 THEN a ELSE GCD(b, a % b)

\* the rational n/d (d # 0) in lowest terms with a positive denominator
Rat(n, d) ==
    LET s == IF d < 0 THEN -1 ELSE 1
        g == GCD(Abs(n), Abs(d))
    IN  <<(s * n) \div g, (s * d) \div g, 1>>

Num(n) == <<n, 1, 1>>
NaN == <<0, 0, 1>>
Inf == <<1, 0, 1>>
NegInf == <<-1, 0, 1>>
ZeroDivisionError == <<0, 0, 0>>

IsFinite(a) == a[2] > 0
IsRational(a) == a[2] > 0 /\ a[3] = 1

Add(a, b) == Rat(a[1] * b[2] + b[1] * a[2], a[2] * b[2])
Sub(a, b) == Rat(a[1] * b[2] - b[1] * a[2], a[2] * b[2])
Mul(a, b) == Rat(a[1] * b[1], a[2] * b[2])
Less(a, b) == a[1] * b[2] < b[1] * a[2]
Positive(a) == a[1] > 0

\* Python float `a / b`: raises ZeroDivisionError on b = 0
PyDiv(a, b) ==
    IF b[1] = 0 THEN ZeroDivisionError ELSE Rat(a[1] * b[2], a[2] * b[1])

\* pandas / numpy `a / b` on float columns: inf or NaN on b = 0, never raises
PdDiv(a, b) ==
    IF b[1] # 0 THEN Rat(a[1] * b[2], a[2] * b[1])
    ELSE IF a[1] > 0 THEN Inf
    ELSE IF a[1] < 0 THEN NegInf
    ELSE NaN

IsSquare(n) == \E k \in 0..n : k * k = n
IntSqrt(n) == CHOOSE k \in 0..n : k * k = n

\* the square root of a rational a >= 0
Sqrt(a) ==
    IF IsSquare(a[1]) /\ IsSquare(a[2])
    THEN <<IntSqrt(a[1]), IntSqrt(a[2]), 1>>
    ELSE <<a[1], a[2], 2>>

\* Python int(x) on a finite float: truncation toward zero
PyInt(a) ==
    IF a[1] >= 0 THEN a[1] \div a[2] ELSE -((-a[1]) \div a[2])

\* Python round(x): to the nearest integer, ties to the even neighbour
PyRound(a) ==
    LET fl == a[1] \div a[2]
        twice == 2 * (a[1] - fl * a[2])
    IN  IF twice < a[2] THEN fl
        ELSE IF twice > a[2] THEN fl + 1
        ELSE IF fl % 2 = 0 THEN fl ELSE fl + 1

RECURSIVE SumSeq(_)
SumSeq(s) == IF s = <<>> THEN Num(0) ELSE Add(Head(s), SumSeq(Tail(s)))

RECURSIVE MinSeq(_)
MinSeq(s) ==
    IF Len(s) = 1 THEN s[1]
    ELSE LET m == MinSeq(Tail(s)) IN IF Less(m, s[1]) THEN m ELSE s[1]

RECURSIVE MaxSeq(_)
MaxSeq(s) ==
    IF Len(s) = 1 THEN s[1]
    ELSE LET m == MaxSeq(Tail(s)) IN IF Less(s[1], m) THEN m ELSE s[1]

Mean(s) == PyDiv(SumSeq(s), Num(Len(s)))

\* sum of squared deviations from the mean
SumSqDev(s) ==
    LET m == Mean(s)
    IN  SumSeq([i \in DOMAIN s |-> Mul(Sub(s[i], m), Sub(s[i], m))])

\* standard deviation with `ddof` delta degrees of freedom
StdDdof(s, ddof) == Sqrt(PyDiv(SumSqDev(s), Num(Len(s) - ddof)))

(***************************************************************************)
(* Python dict: insertion-ordered keys and a key -> value map              *)
(***************************************************************************)
EmptyDict == [keys |-> <<>>, val |-> <<>>]

Range(s) == {s[i] : i \in DOMAIN s}

\* a list without its repeated elements, first occurrences kept in order
Unique(s) ==
    IF Cardinality(Range(s)) = Len(s) THEN s
    ELSE LET first == {i \in DOMAIN s : \A j \in 1..(i - 1) : s[j] # s[i]}
             idx == SelectSeq([i \in DOMAIN s |-> i], LAMBDA i : i \in first)
         IN  [n \in DOMAIN idx |-> s[idx[n]]]

\* {k: value[k] for k in list}
DictComp(list, value) ==
    [keys |-> Unique(list), val |-> [k \in Range(list) |-> value[k]]]

\* d.get(k, default)
DictGet(d, k, default) == IF k \in DOMAIN d.val THEN d.val[k] ELSE default

\* d[k] = u[k] for each key k of u, in u's order: an existing key keeps its
\* position and takes the new value, a new key is appended
DictAssign(d, u) ==
    [keys |-> d.keys \o SelectSeq(u.keys, LAMBDA k : k \notin DOMAIN d.val),
     val  |-> u.val @@ d.val]

\* `needle in label` on token sequences
Contains(label, needle) ==
    \E i \in 0..(Len(label) - Len(needle)) :
        \A j \in 1..Len(needle) : label[i + j] = needle[j]

(***************************************************************************)
(* The sidebar form: option lists in the order the code gives them         *)
(***************************************************************************)
GenderOptions ==
    << <<"ying", "(Female)">>, <<"chai", "(Male)">> >>

EducationOptions ==
    << <<"matthayom", "sueksa", "(Secondary)">>,
       <<"parinya", "tri", "(Higher education)">>,
       <<"mai", "chop", "parinya", "tri", "(Incomplete higher)">>,
       <<"matthayom", "ton", "(Lower secondary)">>,
       <<"parinya", "tho", "khuen", "pai", "(Academic degree)">> >>

FamilyStatusOptions ==
    << <<"taengngan", "laeo", "(Married)">>,
       <<"sot", "(Single / not married)">>,
       <<"chot", "thabian", "somrot", "(Civil marriage)">>,
       <<"maai", "(Widow)">>,
       <<"yarang", "/", "yaek", "kan", "yu", "(Separated)">> >>

\* the housing labels carry no English gloss
HousingTypeOptions ==
    << <<"ban", "/", "apartment", "suantua">>,
       <<"yu", "kap", "pho", "mae">>,
       <<"thiphak", "khong", "thetsaban">>,
       <<"chao", "apartment">>,
       <<"thiphak", "sawatdikan">>,
       <<"condo", "/", "sahakon">> >>

IncomeTypeOptions ==
    << <<"manut", "ngoenduean", "(Working)">>,
       <<"kharatchakan", "/", "ratthawisahakit", "(State servant)">>,
       <<"phurap", "bamnan", "(Pensioner)">>,
       <<"phanakngan", "borisat", "ekkachon", "(Commercial associate)">>,
       <<"khon", "wangngan", "/", "naksueksa", "(Unemployed/Student)">> >>

OccupationOptions ==
    << <<"raengngan", "thuapai", "(Laborers)">>,
       <<"phanakngan", "lak", "/", "chaonathi", "(Core staff)">>,
       <<"banchi", "(Accountants)">>,
       <<"phuchatkan", "(Managers)">>,
       <<"khon", "khap", "rot", "(Drivers)">>,
       <<"phanakngan", "khai", "(Sales staff)">>,
       <<"IT", "(IT staff)">>,
       <<"uen", "uen">> >>

OrgTypeOptions ==
    << <<"thurakit", "suantua", "/", "nitibukkhon", "(Business Entity Type 3)">>,
       <<"achip", "itsara", "(Self-employed)">>,
       <<"uen", "uen">>,
       <<"mai", "rabu", "(XNA)">> >>

RegionRatingOptions == <<Num(1), Num(2), Num(3)>>

\* values a user can give each widget; the numeric ones are the widget's
\* minimum, its default and one further admissible value
WidgetChoices ==
    [gender           |-> Range(GenderOptions),
     age              |-> {Num(20), Num(30), Num(70)},
     education        |-> Range(EducationOptions),
     family_status    |-> Range(FamilyStatusOptions),
     housing_type     |-> Range(HousingTypeOptions),
     income           |-> {Num(10000), Num(50000)},
     credit_amount    |-> {Num(10000), Num(200000)},
     annuity          |-> {Num(1000), Num(10000)},
     goods_price      |-> {Num(10000), Num(180000)},
     income_type      |-> Range(IncomeTypeOptions),
     employment_years |-> {Num(0), Num(5), Num(50)},
     occupation       |-> Range(OccupationOptions),
     org_type         |-> Range(OrgTypeOptions),
     own_car          |-> BOOLEAN,
     own_realty       |-> BOOLEAN,
     work_phone       |-> BOOLEAN,
     region_rating    |-> Range(RegionRatingOptions),
     ext_source_1     |-> {Rat(1, 5), Rat(1, 2), Rat(4, 5)},
     ext_source_2     |-> {Rat(1, 5), Rat(1, 2), Rat(4, 5)},
     ext_source_3     |-> {Rat(1, 5), Rat(1, 2), Rat(4, 5)}]

\* the widgets' initial values: a selectbox shows its first option unless an
\* index is given, a slider and a number_input their `value`
FormDefaults ==
    [gender           |-> GenderOptions[1],
     age              |-> Num(30),
     education        |-> EducationOptions[1],
     family_status    |-> FamilyStatusOptions[1],
     housing_type     |-> HousingTypeOptions[1],
     income           |-> Num(50000),
     credit_amount    |-> Num(200000),
     annuity          |-> Num(10000),
     goods_price      |-> Num(180000),
     income_type      |-> IncomeTypeOptions[1],
     employment_years |-> Num(5),
     occupation       |-> OccupationOptions[1],
     org_type         |-> OrgTypeOptions[1],
     own_car          |-> FALSE,
     own_realty       |-> TRUE,
     work_phone       |-> TRUE,
     region_rating    |-> RegionRatingOptions[2],
     ext_source_1     |-> Rat(1, 2),
     ext_source_2     |-> Rat(1, 2),
     ext_source_3     |-> Rat(1, 2)]

Widgets == DOMAIN FormDefaults

\* number of widgets whose value is not the default
Edited(f) == Cardinality({w \in Widgets : f[w] # FormDefaults[w]})

\* the forms a user reaches by changing at most n widgets
RECURSIVE FormsWithin(_)
FormsWithin(n) ==
    IF n = 0 THEN {FormDefaults}
    ELSE LET S == FormsWithin(n - 1)
         IN  S \cup UNION {{[f EXCEPT ![w] = v] : v \in WidgetChoices[w]} :
                              f \in S, w \in Widgets}

(***************************************************************************)
(* Feature derivation at inference (streamlit_app.main)                    *)
(***************************************************************************)
\* a slip of guarded_ratio: the guard written `den >= 0`
guarded_ratio_nonneg(num, den) ==
    IF den[1] >= 0 THEN PyDiv(num, den) ELSE Num(0)

\* `num / den if den > 0 else 0`
guarded_ratio(num, den) == IF Positive(den) THEN PyDiv(num, den) ELSE Num(0)

\* np.mean, np.std (population, ddof = 0), np.min, np.max of a list
np_mean(xs) == Mean(xs)
np_std(xs) == StdDdof(xs, 0)
np_min(xs) == MinSeq(xs)
np_max(xs) == MaxSeq(xs)

\* an if / elif chain over `needle in label`: the flag of the first matching
\* rule is assigned 1 (the list holds it), nothing is assigned when no rule
\* matches
RECURSIVE flag_chain(_, _)
flag_chain(label, rules) ==
    IF rules = <<>> THEN <<>>
    ELSE IF Contains(label, rules[1][1]) THEN <<rules[1][2]>>
    ELSE flag_chain(label, Tail(rules))

GenderRules == << << <<"chai">>, "CODE_GENDER_M" >> >>

EducationRules ==
    << << <<"matthayom", "sueksa">>,
          "NAME_EDUCATION_TYPE_Secondary / secondary special" >>,
       << <<"parinya", "tri">>, "NAME_EDUCATION_TYPE_Higher education" >> >>

FamilyStatusRules ==
    << << <<"taengngan", "laeo">>, "NAME_FAMILY_STATUS_Married" >>,
       << <<"sot">>, "NAME_FAMILY_STATUS_Single / not married" >> >>

HousingTypeRules ==
    << << <<"ban", "/", "apartment", "suantua">>,
          "NAME_HOUSING_TYPE_House / apartment" >>,
       << <<"yu", "kap", "pho", "mae">>, "NAME_HOUSING_TYPE_With parents" >> >>

OccupationRules ==
    << << <<"chaonathi">>, "OCCUPATION_TYPE_Core staff" >>,
       << <<"khon", "khap", "rot">>, "OCCUPATION_TYPE_Drivers" >>,
       << <<"raengngan">>, "OCCUPATION_TYPE_Low-skill Laborers" >> >>

OrgTypeRules ==
    << << <<"thurakit", "suantua">>,
          "ORGANIZATION_TYPE_Business Entity Type 3" >>,
       << <<"achip", "itsara">>, "ORGANIZATION_TYPE_Self-employed" >>,
       << <<"mai", "rabu">>, "ORGANIZATION_TYPE_XNA" >> >>

IncomeTypeRules ==
    << << <<"manut", "ngoenduean">>, "NAME_INCOME_TYPE_Working" >>,
       << <<"kharatchakan">>, "NAME_INCOME_TYPE_State servant" >>,
       << <<"bamnan">>, "NAME_INCOME_TYPE_Pensioner" >>,
       << <<"ekkachon">>, "NAME_INCOME_TYPE_Commercial associate" >> >>

\* the keys of the numeric assignments, in code order
NumericNames ==
    <<"AMT_CREDIT", "AMT_GOODS_PRICE", "DAYS_BIRTH", "DAYS_EMPLOYED",
      "EXT_SOURCE_1", "EXT_SOURCE_2", "EXT_SOURCE_3",
      "REGION_RATING_CLIENT", "REGION_RATING_CLIENT_W_CITY", "FLAG_WORK_PHONE",
      "CREDIT_TO_ANNUITY_RATIO", "CREDIT_TO_GOODS_RATIO", "AGE_YEARS",
      "EMPLOYMENT_YEARS", "EMPLOYMENT_TO_AGE_RATIO",
      "EXT_SOURCE_MEAN", "EXT_SOURCE_STD", "EXT_SOURCE_MIN", "EXT_SOURCE_MAX">>

\* the numeric assignments `input_dict[key] = value`
numeric_writes(f) ==
    LET ext_list == <<f.ext_source_1, f.ext_source_2, f.ext_source_3>>
    IN  [keys |-> NumericNames,
         val  |->
           [AMT_CREDIT |-> f.credit_amount,
            AMT_GOODS_PRICE |-> f.goods_price,
            DAYS_BIRTH |-> Mul(f.age, Num(-365)),
            DAYS_EMPLOYED |-> Mul(f.employment_years, Num(-365)),
            EXT_SOURCE_1 |-> f.ext_source_1,
            EXT_SOURCE_2 |-> f.ext_source_2,
            EXT_SOURCE_3 |-> f.ext_source_3,
            REGION_RATING_CLIENT |-> f.region_rating,
            REGION_RATING_CLIENT_W_CITY |-> f.region_rating,
            FLAG_WORK_PHONE |-> IF f.work_phone THEN Num(1) ELSE Num(0),
            CREDIT_TO_ANNUITY_RATIO |-> guarded_ratio(f.credit_amount, f.annuity),
            CREDIT_TO_GOODS_RATIO |-> guarded_ratio(f.credit_amount, f.goods_price),
            AGE_YEARS |-> f.age,
            EMPLOYMENT_YEARS |-> f.employment_years,
            EMPLOYMENT_TO_AGE_RATIO |-> guarded_ratio(f.employment_years, f.age),
            EXT_SOURCE_MEAN |-> np_mean(ext_list),
            EXT_SOURCE_STD |-> np_std(ext_list),
            EXT_SOURCE_MIN |-> np_min(ext_list),
            EXT_SOURCE_MAX |-> np_max(ext_list)]]

\* the one-hot assignments `input_dict[flag] = 1`, in code order
categorical_writes(f) ==
    LET flags ==
            flag_chain(f.gender, GenderRules)
            \o (IF f.own_car THEN <<"FLAG_OWN_CAR_Y">> ELSE <<>>)
            \o flag_chain(f.education, EducationRules)
            \o flag_chain(f.family_status, FamilyStatusRules)
            \o flag_chain(f.housing_type, HousingTypeRules)
            \o flag_chain(f.occupation, OccupationRules)
            \o flag_chain(f.org_type, OrgTypeRules)
            \o flag_chain(f.income_type, IncomeTypeRules)
    IN  [keys |-> flags, val |-> [k \in Range(flags) |-> Num(1)]]

\* every `input_dict[key] = value` the handler executes, in order
derived_writes(f) ==
    DictAssign(DictAssign(EmptyDict, numeric_writes(f)), categorical_writes(f))

\* a slip of initial_input_dict: every feature starts at 0
initial_input_dict_zeros(features, meds) ==
    DictComp(features, [feat \in Range(features) |-> Num(0)])

\* {feat: medians.get(feat, 0) for feat in EXPECTED_FEATURES}
initial_input_dict(features, meds) ==
    DictComp(features,
        [feat \in Range(features) |->
            IF feat \in DOMAIN meds THEN meds[feat] ELSE Num(0)])

\* input_dict once the mappings are done
build_input_dict(features, meds, f) ==
    DictAssign(initial_input_dict(features, meds), derived_writes(f))

\* a slip of align: the comprehension runs over input_dict's own keys
align_input_keys(d, model_features) ==
    DictComp(d.keys, [feat \in Range(d.keys) |-> DictGet(d, feat, Num(0))])

\* {feat: input_dict.get(feat, 0) for feat in model_features}
align(d, model_features) ==
    DictComp(model_features,
        [feat \in Range(model_features) |-> DictGet(d, feat, Num(0))])

(***************************************************************************)
(* Scoring and display (streamlit_app.main)                                *)
(***************************************************************************)
\* a slip of credit_score_of: round() in place of int()
credit_score_rounded(p) == PyRound(Sub(Num(850), Mul(p, Num(550))))

\* a slip of credit_score_of: the score grows with the risk
credit_score_direct(p) == PyInt(Add(Num(300), Mul(p, Num(550))))

\* int(850 - (probability * 550))
credit_score_of(p) == PyInt(Sub(Num(850), Mul(p, Num(550))))

\* a slip of risk_tier: the thresholds compared with `<=`
risk_tier_inclusive(p) ==
    IF ~Less(Rat(1, 5), p) THEN "Low Risk"
    ELSE IF ~Less(Rat(1, 2), p) THEN "Medium Risk"
    ELSE "High Risk"

\* the if / elif / else over the probability
risk_tier(p) ==
    IF Less(p, Rat(1, 5)) THEN "Low Risk"
    ELSE IF Less(p, Rat(1, 2)) THEN "Medium Risk"
    ELSE "High Risk"

(***************************************************************************)
(* Training-artifact regeneration (recreate_scaling.create_features)       *)
(***************************************************************************)
Neg(a) == <<-a[1], a[2], a[3]>>

\* pandas Series.mean / std (sample, ddof = 1) / min / max along a row
pd_mean(xs) == Mean(xs)
pd_std(xs) == StdDdof(xs, 1)
pd_min(xs) == MinSeq(xs)
pd_max(xs) == MaxSeq(xs)

\* a slip of shifted_ratio: the `+ 1` of the denominator left out
shifted_ratio_unshifted(num, den) == PdDiv(num, den)

\* num / (den + 1)
shifted_ratio(num, den) == PdDiv(num, Add(den, Num(1)))

\* a slip of years_of_days: a year of 365.25 days
years_of_days_julian(days) == PdDiv(Neg(days), Rat(1461, 4))

\* -days / 365
years_of_days(days) == PdDiv(Neg(days), Num(365))

\* the engineered columns of one row of the frame
create_features_row(row) ==
    LET age_years == years_of_days(row["DAYS_BIRTH"])
        employment_years == years_of_days(row["DAYS_EMPLOYED"])
        ext == <<row["EXT_SOURCE_1"], row["EXT_SOURCE_2"], row["EXT_SOURCE_3"]>>
    IN  [ CREDIT_TO_ANNUITY_RATIO |->
              shifted_ratio(row["AMT_CREDIT"], row["AMT_ANNUITY"]),
          CREDIT_TO_GOODS_RATIO |->
              shifted_ratio(row["AMT_CREDIT"], row["AMT_GOODS_PRICE"]),
          AGE_YEARS |-> age_years,
          EMPLOYMENT_YEARS |-> employment_years,
          EMPLOYMENT_TO_AGE_RATIO |-> shifted_ratio(employment_years, age_years),
          EXT_SOURCE_MEAN |-> pd_mean(ext),
          EXT_SOURCE_STD |-> pd_std(ext),
          EXT_SOURCE_MIN |-> pd_min(ext),
          EXT_SOURCE_MAX |-> pd_max(ext) ] @@ row

\* df_new: every row of df with the engineered columns set
create_features(df) == [i \in DOMAIN df |-> create_features_row(df[i])]

(***************************************************************************)
(* Artifacts a process may load                                            *)
(***************************************************************************)
\* the one-hot flags the handler can write, by category group
FlagRules ==
    [gender        |-> GenderRules,
     education     |-> EducationRules,
     family_status |-> FamilyStatusRules,
     housing_type  |-> HousingTypeRules,
     occupation    |-> OccupationRules,
     org_type      |-> OrgTypeRules,
     income_type   |-> IncomeTypeRules]

Groups == DOMAIN FlagRules

GroupFlags(g) == {FlagRules[g][i][2] : i \in DOMAIN FlagRules[g]}

FlagNames == {"FLAG_OWN_CAR_Y"} \cup UNION {GroupFlags(g) : g \in Groups}

\* aggregate features no form field determines (compute_medians.top_feats)
\* and the annuity column, which the form collects but never writes
AggregateNames ==
    <<"PREV_CNT_PAYMENT_max", "PREV_DAYS_FIRST_DRAWING_sum",
      "DEF_30_CNT_SOCIAL_CIRCLE", "AMT_ANNUITY">>

\* a feature_names.csv naming every feature above
FullSchema ==
    AggregateNames \o NumericNames
    \o <<"CODE_GENDER_M", "FLAG_OWN_CAR_Y",
         "NAME_EDUCATION_TYPE_Secondary / secondary special",
         "NAME_EDUCATION_TYPE_Higher education",
         "NAME_FAMILY_STATUS_Married",
         "NAME_FAMILY_STATUS_Single / not married",
         "NAME_HOUSING_TYPE_House / apartment",
         "NAME_HOUSING_TYPE_With parents",
         "OCCUPATION_TYPE_Core staff", "OCCUPATION_TYPE_Drivers",
         "OCCUPATION_TYPE_Low-skill Laborers",
         "ORGANIZATION_TYPE_Business Entity Type 3",
         "ORGANIZATION_TYPE_Self-employed", "ORGANIZATION_TYPE_XNA",
         "NAME_INCOME_TYPE_Working", "NAME_INCOME_TYPE_State servant",
         "NAME_INCOME_TYPE_Pensioner",
         "NAME_INCOME_TYPE_Commercial associate">>

Reverse(s) == [i \in DOMAIN s |-> s[Len(s) + 1 - i]]

\* names the short schemas are drawn over: an aggregate, a numeric feature
\* and a flag
ProbeNames ==
    {"PREV_CNT_PAYMENT_max", "EXT_SOURCE_MEAN", "NAME_FAMILY_STATUS_Married"}

\* sequences without repetition over S, of length at most n
InjectiveSeqs(S, n) ==
    {s \in UNION {[1..k -> S] : k \in 0..n} :
        \A i, j \in DOMAIN s : i # j => s[i] # s[j]}

\* contents of data/features/feature_names.csv (an absent file reads as [])
SchemaChoices ==
    {FullSchema, Reverse(FullSchema)} \cup InjectiveSeqs(ProbeNames, MaxSchemaLen)

\* contents of data/processed/feature_medians.json (an absent or unreadable
\* file reads as {}); the file has one entry per numeric training column
NoMedians == <<>>
UnitMedians == [n \in Range(FullSchema) |-> Num(1)]
SampleMedians ==
    [n \in {"SK_ID_CURR", "TARGET", "PREV_CNT_PAYMENT_max",
            "DEF_30_CNT_SOCIAL_CIRCLE", "CREDIT_TO_GOODS_RATIO",
            "EXT_SOURCE_MEAN", "NAME_FAMILY_STATUS_Married"} |->
        CASE n = "SK_ID_CURR" -> Num(278202)
          [] n = "TARGET" -> Num(0)
          [] n = "PREV_CNT_PAYMENT_max" -> Num(12)
          [] n = "DEF_30_CNT_SOCIAL_CIRCLE" -> Num(0)
          [] n = "CREDIT_TO_GOODS_RATIO" -> Rat(9, 8)
          [] n = "EXT_SOURCE_MEAN" -> Rat(21, 40)
          [] n = "NAME_FAMILY_STATUS_Married" -> Num(1)]

MedianChoices == {NoMedians, UnitMedians, SampleMedians}

\* a feature_medians.json written from a table with an all-missing column:
\* DataFrame.median gives NaN for it and json round-trips NaN
NanMedians ==
    [n \in DOMAIN SampleMedians |->
        IF n = "PREV_CNT_PAYMENT_max" THEN NaN ELSE SampleMedians[n]]

(***************************************************************************)
(* Preprocessing artifacts and the files a process reads                   *)
(* A one-row DataFrame is a dict: its columns are the keys, in order.      *)
(***************************************************************************)
\* Python's None
None == <<>>

\* the column median the fit saw for a feature
TrainingMedian(name) ==
    IF name \in DOMAIN SampleMedians THEN SampleMedians[name] ELSE Num(0)

\* SimpleImputer(strategy='median').fit on a DataFrame with these columns
FittedImputer(features) ==
    [feature_names_in_ |-> features,
     statistics_ |-> [i \in DOMAIN features |-> TrainingMedian(features[i])]]

\* RobustScaler().fit on the imputed ndarray: the column count is kept, the
\* column names are not
FittedScaler(features) ==
    [n_features_in_ |-> Len(features),
     center_ |-> [i \in DOMAIN features |-> TrainingMedian(features[i])],
     scale_ |-> [i \in DOMAIN features |-> Num(2)]]

\* the fitted classifier; what predict_proba returns is an input of a request
FittedModel == [classes_ |-> <<0, 1>>]

\* position of a column in a frame
ColumnIndex(df, k) == CHOOSE i \in DOMAIN df.keys : df.keys[i] = k

\* imputer.transform validates the frame against the fit: a different column
\* list, or no column at all, raises ValueError
imputer_accepts(imp, df) ==
    Len(df.keys) > 0 /\ df.keys = imp.feature_names_in_

\* imputer.transform: a missing value is replaced by the column's statistic
imputer_transform(imp, df) ==
    [keys |-> df.keys,
     val  |-> [k \in DOMAIN df.val |->
                  IF df.val[k] = NaN THEN imp.statistics_[ColumnIndex(df, k)]
                  ELSE df.val[k]]]

\* scaler.transform validates the column count only: a different count
\* raises ValueError
scaler_accepts(sc, df) == Len(df.keys) = sc.n_features_in_

\* (x - center) / scale; a square root is kept with the centre and the scale
\* applied to it
Affine(x, c, s) ==
    IF IsRational(x) THEN PdDiv(Sub(x, c), s)
    ELSE <<x[1], x[2], x[3], c, s>>

\* scaler.transform: each column centred and scaled
scaler_transform(sc, df) ==
    [keys |-> df.keys,
     val  |-> [k \in DOMAIN df.val |->
                  Affine(df.val[k], sc.center_[ColumnIndex(df, k)],
                         sc.scale_[ColumnIndex(df, k)])]]

\* step 1 of the preprocessing: `if imputer: ... else: df_predict`
impute_step(imp, df) ==
    IF imp # None THEN imputer_transform(imp, df) ELSE df

\* a slip of scale_step: the frame is handed on unscaled in every case
scale_step_never(sc, df) == [out |-> df, printed |-> <<>>]

\* step 2 of the preprocessing: the frame handed to the classifier and what
\* is printed on the console; a ValueError of the scaler is caught here
scale_step(sc, df) ==
    IF sc = None THEN [out |-> df, printed |-> <<>>]
    ELSE IF scaler_accepts(sc, df)
         THEN [out |-> scaler_transform(sc, df), printed |-> <<>>]
         ELSE [out |-> df, printed |-> <<"Scaling warning">>]

\* states of a file on disk
FileNames ==
    {"data/features/feature_names.csv", "data/processed/feature_medians.json",
     "models/best_model_lgbm.pkl", "models/imputer.joblib",
     "models/scaler.joblib"}

FileStates == {"present", "absent", "unreadable"}

AllPresent == [n \in FileNames |-> "present"]

\* load_feature_names(): the `feature` column, [] when the file is absent
load_feature_names(status, content) ==
    IF status = "present" THEN content ELSE <<>>

\* load_medians(): the parsed table, {} when absent or unreadable
load_medians(status, content) ==
    IF status = "present" THEN content ELSE <<>>

\* load_model(): the three artifacts, or None three times when any of the
\* three loads raises
load_model(fs, m, imp, sc) ==
    IF /\ fs["models/best_model_lgbm.pkl"] = "present"
       /\ fs["models/imputer.joblib"] = "present"
       /\ fs["models/scaler.joblib"] = "present"
    THEN <<m, imp, sc>>
    ELSE <<None, None, None>>

\* probabilities of default a classifier can return
Probs == {Rat(k, ProbDenom) : k \in 0..ProbDenom} \cup {Rat(1, 5), Rat(1, 2)}

\* the probabilities returned in a session of the form: the specification's
\* example and the High Risk threshold
SessionProbs == {Rat(3, 20), Rat(1, 2)}

\* the widget values a session submits
Forms == FormsWithin(MaxEdits)

\* raw numeric attributes over which the derivation is defined, beyond what
\* the widgets admit: zero and negative denominators
RawForms ==
    {[FormDefaults EXCEPT !.credit_amount = c, !.annuity = n, !.goods_price = g,
                          !.age = y, !.employment_years = e] :
        c \in {Num(0), Num(10000), Num(200000)},
        n \in {Num(-1000), Num(0), Rat(1, 2), Num(10000)},
        g \in {Num(-1), Num(0), Num(180000)},
        y \in {Num(-1), Num(0), Num(30)},
        e \in {Num(0), Num(5), Num(50)}}

(***************************************************************************)
(* State                                                                   *)
(***************************************************************************)
VARIABLES
    files,              \* the state of each file the process reads
    EXPECTED_FEATURES,  \* the schema: list of feature names read at import
    medians,            \* load_medians(): feature name -> median
    model,              \* load_model(): the classifier, or None
    imputer,            \* load_model(): the imputer, or None
    scaler,             \* load_model(): the scaler, or None
    view,               \* "crashed": the import raised; "stopped": st.stop();
                        \* "form": nothing analysed; "result": the handler
                        \* ran to its end; "failed": its except branch ran
    form,               \* the widget values the handler read
    input_dict,         \* the handler's input_dict after the mappings
    aligned_input,      \* the handler's aligned_input
    df_predict_scaled,  \* the frame handed to predict_proba
    probability,        \* predict_proba(...)[:, 1][0]
    credit_score,       \* the score shown in the second metric
    tier,               \* the tier shown in the third column
    raised,             \* the step whose exception reached the except branch,
                        \* "none" when none did
    console,            \* what the handler printed
    screen,             \* what the page shows below the title, in order
    df,                 \* recreate_scaling: the frame create_features is given
    df_new              \* recreate_scaling: the frame create_features returned

vars ==
    <<files, EXPECTED_FEATURES, medians, model, imputer, scaler, view, form,
      input_dict, aligned_input, df_predict_scaled, probability, credit_score,
      tier, raised, console, screen, df, df_new>>

artifacts == <<files, EXPECTED_FEATURES, medians, model, imputer, scaler>>

\* the frames of the regeneration program
training == <<df, df_new>>

\* the regeneration program is not running
NoTraining == df = None /\ df_new = None

\* no request has been handled in this run of the script
NoRequest ==
    /\ form = None
    /\ input_dict = None
    /\ aligned_input = None
    /\ df_predict_scaled = None
    /\ probability = None
    /\ credit_score = None
    /\ tier = None
    /\ raised = "none"
    /\ console = <<>>

NothingShown ==
    /\ view = "form"
    /\ NoRequest
    /\ screen = <<>>

\* every file is in place and the artifacts were fitted on the schema
Loaded ==
    /\ files = AllPresent
    /\ model = FittedModel
    /\ imputer = FittedImputer(EXPECTED_FEATURES)
    /\ scaler = FittedScaler(EXPECTED_FEATURES)

\* the process has loaded its artifacts; the button is not pressed
Init ==
    /\ EXPECTED_FEATURES \in SchemaChoices
    /\ medians \in MedianChoices
    /\ Loaded
    /\ NothingShown
    /\ NoTraining

\* the steps of the handler's try block, in order; the last four draw the
\* probability metric, the score metric, the tier and the details expander
Steps ==
    <<"align", "impute", "predict", "probability", "credit_score", "tier",
      "details">>

Drawn == <<"probability", "credit_score", "tier", "details">>

StepIndex(step) == CHOOSE i \in DOMAIN Steps : Steps[i] = step

\* what a call may do on its own account: nothing, or raise at one step
Faults == {"none"} \cup Range(Steps)

\* the button is pressed with the widgets holding f; the classifier returns
\* p; fault names the call that raises, if one does.  The handler maps the
\* inputs, then in its try block aligns, imputes, scales, predicts and
\* draws; an exception in the try block ends in the except branch, which
\* draws the error and the hint below whatever is drawn already
Handler(f, p, fault) ==
    /\ view = "form"
    /\ \E d \in {build_input_dict(EXPECTED_FEATURES, medians, f)} :
       \E df_predict \in {align(d, EXPECTED_FEATURES)} :
       \E exc \in {IF fault = "align" THEN "align"
                   ELSE IF imputer # None /\ ~imputer_accepts(imputer, df_predict)
                        THEN "impute"
                   ELSE fault} :
           LET done(step) == exc = "none" \/ StepIndex(step) < StepIndex(exc)
           IN  /\ form' = f
               /\ input_dict' = d
               /\ aligned_input' = IF done("align") THEN df_predict ELSE None
               /\ \E scaled \in {IF done("impute")
                                 THEN scale_step(scaler,
                                                 impute_step(imputer, df_predict))
                                 ELSE [out |-> None, printed |-> <<>>]} :
                      /\ df_predict_scaled' = scaled.out
                      /\ console' = scaled.printed
               /\ probability' = IF done("predict") THEN p ELSE None
               /\ credit_score' =
                      IF done("predict") THEN credit_score_of(p) ELSE None
               /\ tier' = IF done("predict") THEN risk_tier(p) ELSE None
               /\ screen' =
                      SelectSeq(Drawn, done)
                      \o (IF exc = "none" THEN <<>> ELSE <<"error", "hint">>)
               /\ raised' = exc
               /\ view' = IF exc = "none" THEN "result" ELSE "failed"
    /\ UNCHANGED <<artifacts, training>>

\* a request in which no call raises on its own account
Analyze(f, p) == Handler(f, p, "none")

\* any further interaction reruns the script with the button unpressed: the
\* result is no longer drawn
Rerun ==
    /\ view \in {"result", "failed"}
    /\ view' = "form"
    /\ form' = None
    /\ input_dict' = None
    /\ aligned_input' = None
    /\ df_predict_scaled' = None
    /\ probability' = None
    /\ credit_score' = None
    /\ tier' = None
    /\ raised' = "none"
    /\ console' = <<>>
    /\ screen' = <<>>
    /\ UNCHANGED <<artifacts, training>>

Next ==
    \/ \E f \in Forms : \E p \in SessionProbs : Analyze(f, p)
    \/ Rerun

Spec == Init /\ [][Next]_vars

\* the derivation over its whole input domain, on the full schema
InitDerive ==
    /\ EXPECTED_FEATURES = FullSchema
    /\ medians = SampleMedians
    /\ Loaded
    /\ NothingShown
    /\ NoTraining

NextDerive ==
    \/ \E f \in RawForms : \E p \in SessionProbs : Analyze(f, p)
    \/ Rerun

SpecDerive == InitDerive /\ [][NextDerive]_vars

\* scoring over every probability a classifier can return
InitScore ==
    /\ EXPECTED_FEATURES = FullSchema
    /\ medians = SampleMedians
    /\ Loaded
    /\ NothingShown
    /\ NoTraining

NextScore ==
    \/ \E p \in Probs : Analyze(FormDefaults, p)
    \/ Rerun

SpecScore == InitScore /\ [][NextScore]_vars

\* the process from its start, over the states of its files; the request is
\* the form's defaults
SchemaFiles == {FullSchema, Reverse(FullSchema)}

MedianFiles == {SampleMedians, NanMedians}

\* the schemas the preprocessing files may have been fitted on: the files
\* are written by another program and replaced one by one
FitSchemas ==
    {FullSchema, Reverse(FullSchema), SubSeq(FullSchema, 1, Len(FullSchema) - 1)}

\* the script has run once: the import read the schema, main() loaded the
\* artifacts and the medians, and stopped if the classifier is None
InitService ==
    /\ files \in [FileNames -> FileStates]
    /\ NoRequest
    /\ NoTraining
    /\ IF files["data/features/feature_names.csv"] = "unreadable"
       THEN /\ EXPECTED_FEATURES = None
            /\ medians = None
            /\ model = None
            /\ imputer = None
            /\ scaler = None
            /\ view = "crashed"
            /\ screen = <<"exception">>
       ELSE \E content \in SchemaFiles, table \in MedianFiles,
               fi \in FitSchemas, fs \in FitSchemas :
                LET loaded == load_model(files, FittedModel, FittedImputer(fi),
                                         FittedScaler(fs))
                IN  /\ EXPECTED_FEATURES =
                           load_feature_names(
                               files["data/features/feature_names.csv"], content)
                    /\ medians =
                           load_medians(
                               files["data/processed/feature_medians.json"],
                               table)
                    /\ model = loaded[1]
                    /\ imputer = loaded[2]
                    /\ scaler = loaded[3]
                    /\ view = IF loaded[1] = None THEN "stopped" ELSE "form"
                    /\ screen = IF loaded[1] = None
                                THEN <<"load_error", "missing_artifacts">>
                                ELSE <<>>

NextService ==
    \/ \E p \in SessionProbs : \E fault \in Faults :
           Handler(FormDefaults, p, fault)
    \/ Rerun

SpecService == InitService /\ [][NextService]_vars

\* the regeneration program: create_features on a table of applications
\* with the raw columns and the label; the amounts are those of the tests,
\* and an annuity of -1
TrainRows ==
    {[AMT_CREDIT |-> c, AMT_ANNUITY |-> a, AMT_GOODS_PRICE |-> g,
      DAYS_BIRTH |-> b, DAYS_EMPLOYED |-> Num(-1000),
      EXT_SOURCE_1 |-> Rat(1, 10), EXT_SOURCE_2 |-> Rat(1, 5),
      EXT_SOURCE_3 |-> Rat(3, 10), TARGET |-> Num(0)] :
        c \in {Num(10000), Num(20000)},
        a \in {Num(-1), Num(0), Num(1000)},
        g \in {Num(0), Num(5000)},
        b \in {Num(-10000), Num(-3650)}}

TrainFrames == UNION {[1..n -> TrainRows] : n \in 0..MaxRows}

InitTrain ==
    /\ EXPECTED_FEATURES = FullSchema
    /\ medians = SampleMedians
    /\ Loaded
    /\ NothingShown
    /\ df \in TrainFrames
    /\ df_new = None

\* df_fe = create_features(train_df): the function works on a copy of the
\* frame, which the caller keeps as it was
CreateFeatures ==
    /\ df_new' = create_features(df)
    /\ UNCHANGED <<df, artifacts, view, form, input_dict, aligned_input,
                   df_predict_scaled, probability, credit_score, tier, raised,
                   console, screen>>

NextTrain == CreateFeatures

SpecTrain == InitTrain /\ [][NextTrain]_vars

\* the handler over every age and a range of employment durations of the
\* sliders
YearForms ==
    {[FormDefaults EXCEPT !.age = Num(y), !.employment_years = Num(e)] :
        y \in 20..70, e \in {0, 1, 5, 10, 25, 49, 50}}

InitYears ==
    /\ EXPECTED_FEATURES = FullSchema
    /\ medians = SampleMedians
    /\ Loaded
    /\ NothingShown
    /\ NoTraining

NextYears ==
    \/ \E f \in YearForms : Analyze(f, Rat(3, 20))
    \/ Rerun

SpecYears == InitYears /\ [][NextYears]_vars

(***************************************************************************)
(* Vocabulary of the properties                                            *)
(***************************************************************************)
\* every name some derivation rule can assign
WritableNames == Range(NumericNames) \cup FlagNames

\* the names the handler assigned on the form it read
WrittenNames == DOMAIN derived_writes(form).val

MedianOrZero(n) == IF n \in DOMAIN medians THEN medians[n] ELSE Num(0)

FlagGroup(flag) == CHOOSE g \in Groups : flag \in GroupFlags(g)

\* the form option whose category is exactly the flag's category; no option
\* of the occupation list is the category "Low-skill Laborers"
FlagOption ==
    [flag \in FlagNames \ {"FLAG_OWN_CAR_Y"} |->
        CASE flag = "CODE_GENDER_M" -> GenderOptions[2]
          [] flag = "NAME_EDUCATION_TYPE_Secondary / secondary special" ->
                EducationOptions[1]
          [] flag = "NAME_EDUCATION_TYPE_Higher education" -> EducationOptions[2]
          [] flag = "NAME_FAMILY_STATUS_Married" -> FamilyStatusOptions[1]
          [] flag = "NAME_FAMILY_STATUS_Single / not married" ->
                FamilyStatusOptions[2]
          [] flag = "NAME_HOUSING_TYPE_House / apartment" -> HousingTypeOptions[1]
          [] flag = "NAME_HOUSING_TYPE_With parents" -> HousingTypeOptions[2]
          [] flag = "OCCUPATION_TYPE_Core staff" -> OccupationOptions[2]
          [] flag = "OCCUPATION_TYPE_Drivers" -> OccupationOptions[5]
          [] flag = "OCCUPATION_TYPE_Low-skill Laborers" -> None
          [] flag = "ORGANIZATION_TYPE_Business Entity Type 3" -> OrgTypeOptions[1]
          [] flag = "ORGANIZATION_TYPE_Self-employed" -> OrgTypeOptions[2]
          [] flag = "ORGANIZATION_TYPE_XNA" -> OrgTypeOptions[4]
          [] flag = "NAME_INCOME_TYPE_Working" -> IncomeTypeOptions[1]
          [] flag = "NAME_INCOME_TYPE_State servant" -> IncomeTypeOptions[2]
          [] flag = "NAME_INCOME_TYPE_Pensioner" -> IncomeTypeOptions[3]
          [] flag = "NAME_INCOME_TYPE_Commercial associate" ->
                IncomeTypeOptions[4]]

\* the applicant's selection is the flag's category
Selected(f, flag) ==
    IF flag = "FLAG_OWN_CAR_Y" THEN f.own_car
    ELSE f[FlagGroup(flag)] = FlagOption[flag]

\* the row of the training table that holds the same applicant
ApplicantRow(f) ==
    [AMT_CREDIT |-> f.credit_amount,
     AMT_ANNUITY |-> f.annuity,
     AMT_GOODS_PRICE |-> f.goods_price,
     DAYS_BIRTH |-> Mul(f.age, Num(-365)),
     DAYS_EMPLOYED |-> Mul(f.employment_years, Num(-365)),
     EXT_SOURCE_1 |-> f.ext_source_1,
     EXT_SOURCE_2 |-> f.ext_source_2,
     EXT_SOURCE_3 |-> f.ext_source_3]

\* what create_features computes for the applicant the handler read
Trained == create_features(<<ApplicantRow(form)>>)[1]

\* v is the quotient num / den (den # 0), by cross-multiplication
IsQuotient(v, num, den) ==
    /\ IsRational(v)
    /\ v[1] * num[2] * den[1] = num[1] * den[2] * v[2]

RatioInputs ==
    {<<"CREDIT_TO_ANNUITY_RATIO", "credit_amount", "annuity">>,
     <<"CREDIT_TO_GOODS_RATIO", "credit_amount", "goods_price">>,
     <<"EMPLOYMENT_TO_AGE_RATIO", "employment_years", "age">>}

Tiers == {"Low Risk", "Medium Risk", "High Risk"}

\* the exact value of 850 - p * 550 lies in [k, k + 1)
IsFloorOfScore(k, p) ==
    /\ k * p[2] <= 850 * p[2] - 550 * p[1]
    /\ 850 * p[2] - 550 * p[1] < (k + 1) * p[2]

(***************************************************************************)
(* Properties                                                              *)
(***************************************************************************)

\* C1: once a request is aligned, the aligned vector's keys are exactly the
\* schema's names, in schema order, whatever keys the derivation added to
\* input_dict.
SchemaCompleteness ==
    (view \in {"result", "failed"} /\ raised # "align") =>
        /\ aligned_input.keys = EXPECTED_FEATURES
        /\ DOMAIN aligned_input.val = Range(EXPECTED_FEATURES)

\* C1 witness: a two-name schema in an order of its own, while input_dict
\* holds derived keys the schema does not name.
SchemaCompletenessWitness ==
    /\ view = "result"
    /\ EXPECTED_FEATURES = <<"NAME_FAMILY_STATUS_Married", "PREV_CNT_PAYMENT_max">>
    /\ "AGE_YEARS" \in DOMAIN input_dict.val
    /\ "CODE_GENDER_M" \in DOMAIN input_dict.val
    /\ aligned_input.keys = EXPECTED_FEATURES

\* C2: a schema name the derivation did not assign is aligned to its median,
\* or to 0 when the median table lacks it; every schema name is a key of
\* input_dict, so the alignment's own default of 0 is never taken.
DefaultFallback ==
    view = "result" =>
        \A n \in Range(EXPECTED_FEATURES) :
            /\ n \in DOMAIN input_dict.val
            /\ aligned_input.val[n] = input_dict.val[n]
            /\ n \notin WrittenNames => aligned_input.val[n] = MedianOrZero(n)

\* C2 witness: the schema names an aggregate with a nonzero median and a
\* feature the median table lacks, neither assigned by any rule.
DefaultFallbackWitness ==
    /\ view = "result"
    /\ medians = SampleMedians
    /\ "PREV_CNT_PAYMENT_max" \in Range(EXPECTED_FEATURES)
    /\ "AMT_ANNUITY" \in Range(EXPECTED_FEATURES)
    /\ aligned_input.val["PREV_CNT_PAYMENT_max"] = Num(12)
    /\ aligned_input.val["AMT_ANNUITY"] = Num(0)

\* C3 (as claimed): the three ratios written at inference equal the ratios
\* create_features computes for the same applicant.
RatioParity ==
    view = "result" =>
        \A r \in RatioInputs : input_dict.val[r[1]] = Trained[r[1]]

\* C4: each ratio is the quotient when its denominator is positive and
\* exactly 0 otherwise, and is always a finite number.
RatioZeroGuard ==
    view = "result" =>
        \A r \in RatioInputs :
            LET v == input_dict.val[r[1]]
                num == form[r[2]]
                den == form[r[3]]
            IN  /\ IsRational(v)
                /\ den[1] > 0 => IsQuotient(v, num, den)
                /\ den[1] <= 0 => v = Num(0)

\* C4 witness: a zero annuity, a positive goods price and a negative age.
RatioZeroGuardWitness ==
    /\ view = "result"
    /\ form.annuity = Num(0)
    /\ form.credit_amount = Num(200000)
    /\ form.goods_price = Num(180000)
    /\ form.age = Num(-1)
    /\ input_dict.val["CREDIT_TO_ANNUITY_RATIO"] = Num(0)
    /\ input_dict.val["CREDIT_TO_GOODS_RATIO"] = Rat(10, 9)
    /\ input_dict.val["EMPLOYMENT_TO_AGE_RATIO"] = Num(0)

\* C5 (as claimed): EXT_SOURCE_STD at inference is the sample standard
\* deviation (divisor 2) and equals what create_features computes; mean, min
\* and max agree as well.
ExtStatsParity ==
    view = "result" =>
        LET ext == <<form.ext_source_1, form.ext_source_2, form.ext_source_3>>
        IN  /\ input_dict.val["EXT_SOURCE_STD"] = StdDdof(ext, 1)
            /\ Trained["EXT_SOURCE_STD"] = StdDdof(ext, 1)
            /\ input_dict.val["EXT_SOURCE_STD"] = Trained["EXT_SOURCE_STD"]
            /\ \A n \in {"EXT_SOURCE_MEAN", "EXT_SOURCE_MIN", "EXT_SOURCE_MAX"} :
                   input_dict.val[n] = Trained[n]

\* C6 (as claimed): the derivation assigns 1 to a category flag only when the
\* selected option is exactly that flag's category.
FlagOnlyForExactCategory ==
    view = "result" =>
        \A flag \in FlagNames :
            flag \in WrittenNames => Selected(form, flag)

\* C7 (as claimed): in the aligned vector every category flag the handler did
\* not assign for the applicant's selection is 0, whatever the median table:
\* at most one flag of a group is 1, and CODE_GENDER_M and FLAG_OWN_CAR_Y are
\* 0 for an applicant who is not male and owns no car.
OtherFlagsZero ==
    view = "result" =>
        /\ \A flag \in FlagNames \cap Range(EXPECTED_FEATURES) :
               flag \notin WrittenNames => aligned_input.val[flag] = Num(0)
        /\ \A g \in Groups :
               Cardinality({flag \in GroupFlags(g) \cap Range(EXPECTED_FEATURES) :
                               aligned_input.val[flag] = Num(1)}) <= 1

\* C8: exactly one tier per probability: Low below 1/5, Medium from 1/5 to
\* below 1/2, High from 1/2.
TierBoundaries ==
    view = "result" =>
        LET n == probability[1]
            d == probability[2]
        IN  /\ tier \in Tiers
            /\ tier = "Low Risk" <=> 5 * n < d
            /\ tier = "Medium Risk" <=> (5 * n >= d /\ 2 * n < d)
            /\ tier = "High Risk" <=> 2 * n >= d

\* C8 witness: the probability 0.2 is shown as Medium Risk.
TierBoundariesWitness ==
    /\ view = "result"
    /\ probability = Rat(1, 5)
    /\ tier = "Medium Risk"

\* C9 (as claimed): the display score is 850 - p * 550 rounded to the nearest
\* integer.
ScoreIsRounded ==
    view = "result" =>
        credit_score = PyRound(Sub(Num(850), Mul(probability, Num(550))))

\* C9 (amended): the display score is 850 - p * 550 with its fraction dropped.
ScoreIsTruncated ==
    view = "result" => IsFloorOfScore(credit_score, probability)

\* C9 witness: p = 0.15 has 850 - p * 550 = 767.5 and is shown as 767.
ScoreIsTruncatedWitness ==
    /\ view = "result"
    /\ probability = Rat(3, 20)
    /\ credit_score = 767

\* C10: for p in [0, 1] the display score is an integer of 300..850, 850 at
\* p = 0 and 300 at p = 1, and no larger p has a larger score.
ScoreRange ==
    view = "result" =>
        /\ credit_score \in 300..850
        /\ probability = Num(0) => credit_score = 850
        /\ probability = Num(1) => credit_score = 300
        /\ \A q \in Probs :
               Less(probability, q) => credit_score_of(q) <= credit_score

\* C10 witness: p = 1 is shown as 300.
ScoreRangeWitness ==
    /\ view = "result"
    /\ probability = Num(1)
    /\ credit_score = 300

(***************************************************************************)
(* Preprocessing, loading and the outcome of a request                     *)
(***************************************************************************)
\* a request was handled and its try block got past the imputation
ReachedScaling ==
    view \in {"result", "failed"} /\ raised \notin {"align", "impute"}

\* the aligned frame after the imputer
Imputed == imputer_transform(imputer, aligned_input)

\* C11: when the scaler rejects the imputed frame the request goes on: the
\* classifier is given the imputed, unscaled frame, and unless a later call
\* raises the assessment is shown; when the scaler accepts, the classifier
\* is given the scaler's output; in both cases the frame was imputed first
ScalerFallback ==
    ReachedScaling =>
        /\ scaler_accepts(scaler, Imputed) =>
               df_predict_scaled = scaler_transform(scaler, Imputed)
        /\ ~scaler_accepts(scaler, Imputed) =>
               /\ df_predict_scaled = Imputed
               /\ raised = "none" =>
                      /\ view = "result"
                      /\ probability # None
                      /\ tier = risk_tier(probability)

\* a request whose frame had a missing value imputed, rejected by the scaler
\* and assessed all the same
ScalerFallbackWitness ==
    /\ view = "result"
    /\ ~scaler_accepts(scaler, Imputed)
    /\ Imputed # aligned_input
    /\ df_predict_scaled = Imputed
    /\ probability # None

\* the assessment shown was made in degraded mode: no imputer was applied,
\* or the classifier was given the unscaled frame
Degraded ==
    /\ view = "result"
    /\ \/ imputer = None
       \/ df_predict_scaled = impute_step(imputer, aligned_input)

\* C12: an assessment made in degraded mode is marked as degraded in what
\* the caller receives: its page is not the page of a fully preprocessed
\* assessment
DegradedIsMarked == Degraded => screen # Drawn

\* the schema was read, the classifier and the scaler files are in place and
\* the imputer file is not
OnlyImputerMissing ==
    /\ view # "crashed"
    /\ files["models/best_model_lgbm.pkl"] = "present"
    /\ files["models/scaler.joblib"] = "present"
    /\ files["models/imputer.joblib"] # "present"

\* C13: with the classifier in place and the imputer not available the
\* service does not refuse requests: it takes them, and an assessment is
\* made on the aligned frame passed through the imputation step unchanged
ImputerOptional ==
    OnlyImputerMissing =>
        /\ view # "stopped"
        /\ model # None
        /\ ReachedScaling =>
               impute_step(imputer, aligned_input) = aligned_input

\* C14: loading the schema fails with an error when its file is absent or
\* unreadable, and no request is handled with an empty schema
SchemaLoadFails ==
    /\ files["data/features/feature_names.csv"] # "present" => view = "crashed"
    /\ form # None => EXPECTED_FEATURES # <<>>

\* C15: a handled request ends in exactly one of two outcomes: the complete
\* assessment on the page and no failure, or the failure with its cause and
\* no part of an assessment; an exception of any step ends in the second
RequestOutcome ==
    view \in {"result", "failed"} =>
        /\ \/ screen = Drawn /\ raised = "none" /\ probability # None
           \/ screen = <<"error", "hint">> /\ raised # "none"
        /\ raised # "none" => view = "failed"

(***************************************************************************)
(* The regeneration of the training features                               *)
(***************************************************************************)
\* create_features has returned
Returned == df_new # None

\* C16: create_features sets CREDIT_TO_ANNUITY_RATIO = AMT_CREDIT /
\* (AMT_ANNUITY + 1) and CREDIT_TO_GOODS_RATIO = AMT_CREDIT /
\* (AMT_GOODS_PRICE + 1) in every row, so a row with annuity 0 (goods price
\* 0) has the ratio AMT_CREDIT; it returns as many rows as it was given, and
\* the columns of the input keep their values
CreateFeaturesRatios ==
    Returned =>
        /\ Len(df_new) = Len(df)
        /\ \A i \in DOMAIN df :
               /\ \A col \in DOMAIN df[i] : df_new[i][col] = df[i][col]
               /\ df[i].AMT_ANNUITY # Num(-1) =>
                      IsQuotient(df_new[i].CREDIT_TO_ANNUITY_RATIO,
                                 df[i].AMT_CREDIT,
                                 Add(df[i].AMT_ANNUITY, Num(1)))
               /\ df[i].AMT_GOODS_PRICE # Num(-1) =>
                      IsQuotient(df_new[i].CREDIT_TO_GOODS_RATIO,
                                 df[i].AMT_CREDIT,
                                 Add(df[i].AMT_GOODS_PRICE, Num(1)))
               /\ df[i].AMT_ANNUITY = Num(-1) =>
                      ~IsFinite(df_new[i].CREDIT_TO_ANNUITY_RATIO)
               /\ df[i].AMT_ANNUITY = Num(0) =>
                      df_new[i].CREDIT_TO_ANNUITY_RATIO = df[i].AMT_CREDIT
               /\ df[i].AMT_GOODS_PRICE = Num(0) =>
                      df_new[i].CREDIT_TO_GOODS_RATIO = df[i].AMT_CREDIT

\* the second row of the test: annuity 0 and goods price 0 on a credit of
\* 20000, after a row with an annuity of 1000
CreateFeaturesRatiosWitness ==
    /\ Returned
    /\ Len(df) = 2
    /\ df[1].AMT_ANNUITY = Num(1000)
    /\ df_new[1].CREDIT_TO_ANNUITY_RATIO = Rat(10000, 1001)
    /\ df[2].AMT_ANNUITY = Num(0)
    /\ df[2].AMT_GOODS_PRICE = Num(0)
    /\ df_new[2].CREDIT_TO_ANNUITY_RATIO = Num(20000)
    /\ df_new[2].CREDIT_TO_GOODS_RATIO = Num(20000)

\* the row create_features is given when the table holds the day fields the
\* handler wrote
FormDayRow ==
    [ApplicantRow(form) EXCEPT !.DAYS_BIRTH = input_dict.val["DAYS_BIRTH"],
                               !.DAYS_EMPLOYED = input_dict.val["DAYS_EMPLOYED"]]

\* C17: the handler writes DAYS_BIRTH = -365 * age and DAYS_EMPLOYED =
\* -365 * employment_years, and create_features on these day fields returns
\* the AGE_YEARS and EMPLOYMENT_YEARS the handler writes itself, with
\* EMPLOYMENT_TO_AGE_RATIO = EMPLOYMENT_YEARS / (AGE_YEARS + 1) on its side
DayYearRoundTrip ==
    view = "result" =>
        LET out == create_features(<<FormDayRow>>)[1]
        IN  /\ input_dict.val["DAYS_BIRTH"] = Mul(Num(-365), form.age)
            /\ input_dict.val["DAYS_EMPLOYED"] =
                   Mul(Num(-365), form.employment_years)
            /\ out.AGE_YEARS = input_dict.val["AGE_YEARS"]
            /\ out.EMPLOYMENT_YEARS = input_dict.val["EMPLOYMENT_YEARS"]
            /\ IsQuotient(out.EMPLOYMENT_TO_AGE_RATIO,
                          input_dict.val["EMPLOYMENT_YEARS"],
                          Add(input_dict.val["AGE_YEARS"], Num(1)))

\* an applicant of 47 with 25 years of employment: 17155 and 9125 days
DayYearRoundTripWitness ==
    /\ view = "result"
    /\ form.age = Num(47)
    /\ form.employment_years = Num(25)
    /\ input_dict.val["DAYS_BIRTH"] = Num(-17155)
    /\ create_features(<<FormDayRow>>)[1].AGE_YEARS = Num(47)
    /\ create_features(<<FormDayRow>>)[1].EMPLOYMENT_YEARS = Num(25)


====
